---- MODULE Spec2Model ----
(***************************************************************************)
(* The ChessEngine class of src/lib/chessEngine.ts (src/unnamed/part_001)  *)
(* as a state machine: the engine object, the Stockfish worker it talks    *)
(* to through postMessage / onmessage, and the callers' requests.          *)
(*                                                                         *)
(* One action is one JavaScript task: a public method run to its first     *)
(* suspension, a timer callback, or one worker message handed to the       *)
(* installed onmessage handler.  The worker (the move-search oracle) is    *)
(* outside the repository: it answers uci with uciok and isready with      *)
(* readyok, in the order the commands were posted, and runs the searches   *)
(* asked by go one after the other, each streaming info lines and then one *)
(* bestmove line, or nothing at all.  The page sees the worker only        *)
(* through the lines it is handed: a reply waits on the channel from the   *)
(* moment its command is posted, and a line of a search is handed over in  *)
(* the step that produces it.                                              *)
(***************************************************************************)
EXTENDS Integers, Sequences, FiniteSets, TLC

VARIABLES
  stockfish,      \* this.stockfish and its worker: "loading", "failed", "live", "terminated"
  onmessage,      \* this.stockfish.onmessage: the handler installed on the worker
  isReady,        \* this.isReady
  config,         \* this.config
  chess,          \* the position held by the caller's ChessUtils object
  reqs,           \* the calls of getBestMove / getMultipleMoves and their closures
  sent,           \* every command postMessage handed to the worker, in order
  oracleSearch,   \* the go commands (indexes in sent) the worker has not finished: the first is running
  oracleInfos,    \* how many info lines the running search has streamed
  outbox,         \* the uciok / readyok replies the page has not been handed yet
  uciokObserved,  \* history: handleEngineMessage has handled a uciok line
  acksObserved,   \* history: how many readyok lines handleEngineMessage has handled
  terminals,      \* history: how many bestmove lines the page has received
  updates,        \* history: how many times updateConfig was called
  noise,          \* history: how many lines outside the protocol the page was handed
  flipped,        \* ChessBoard: the flipped prop
  dragState,      \* ChessBoard: the dragState state
  mousePosition,  \* ChessBoard: the mousePosition state
  gameState,      \* ChessBoard: chessUtils.getGameState() as of the last render
  onMoveCalls,    \* history: the calls of the onMove prop, in order
  drags,          \* history: how many drags handleMouseDown has started
  calc            \* one application of a pure function: its name, arguments and value

vars == <<stockfish, onmessage, isReady, config, chess, reqs, sent, oracleSearch,
          oracleInfos, outbox, uciokObserved, acksObserved, terminals, updates, noise,
          flipped, dragState, mousePosition, gameState, onMoveCalls, drags, calc>>

\* the state of the ChessBoard component
boardVars == <<flipped, dragState, mousePosition, gameState, onMoveCalls, drags>>

(***************************************************************************)
(* Bounds of the model.                                                    *)
(***************************************************************************)
MaxRequests == 2
MaxUpdates == 1
MaxInfo == 1
MaxNoise == 1
RandDen == 100

Requests == 1..MaxRequests
\* Math.random() is k / RandDen, a value of [0, 1); the draws of the model are
\* the least and the greatest of them
Rand == {0, RandDen - 1}

(***************************************************************************)
(* EngineConfig and the constructor's defaults.                            *)
(***************************************************************************)
Fields == {"eloRating", "skillLevel", "contempt", "moveOverhead",
           "nodesPerMove", "timePerMove", "accuracy"}

DefaultConfig ==
  [eloRating |-> 1500, skillLevel |-> 10, contempt |-> 0, moveOverhead |-> 100,
   nodesPerMove |-> 1000000, timePerMove |-> 1000, accuracy |-> 85]

\* { ...base, ...partial }
Merge(base, partial) ==
  [f \in Fields |-> IF f \in DOMAIN partial THEN partial[f] ELSE base[f]]

NoPartial == [f \in {} |-> 0]

\* the partial configurations handed to the constructor
InitPartials ==
  { NoPartial,
    [eloRating |-> 2400, accuracy |-> 100, timePerMove |-> 0] }

\* the partial configurations handed to updateConfig: the field of one control,
\* and a rating together with a skill level
UpdatePartials ==
  { [accuracy |-> 100],
    [eloRating |-> 700, skillLevel |-> 20] }

(***************************************************************************)
(* The caller's game: positions, their legal moves as chess.js lists them  *)
(* (standard algebraic notation) and as the worker names them (coordinate  *)
(* notation).                                                              *)
(***************************************************************************)
Positions == {"start", "mate"}

\* ChessUtils.getLegalMoves: chess.moves() of the position
LegalMoves(pos) ==
  IF pos = "start" THEN <<"e4", "d4", "Nf3">> ELSE <<>>

\* the moves the worker may name best in the position, in its coordinate
\* notation; none when the position has no legal move
OracleBest(pos) ==
  IF pos = "start" THEN {"e2e4"} ELSE {}

\* the position the caller's game returns to when its last move is taken back
PreviousPosition(pos) == IF pos = "mate" THEN {"start"} ELSE {}

\* the move a chess.js move text names, in the worker's coordinate notation
SanToUci(san) ==
  CASE san = "e4" -> "e2e4"
    [] san = "d4" -> "d2d4"
    [] san = "Nf3" -> "g1f3"
    [] OTHER -> san

\* the position a move of the caller's game leads to
NextPosition(pos) == IF pos = "start" THEN {"mate"} ELSE {}

(***************************************************************************)
(* The game held by a ChessUtils object (src/lib/chessUtils.ts,            *)
(* src/unnamed/part_000): its position and the moves played to reach it.   *)
(* Chess.load and Chess.loadPgn are chess.js 1.x, outside the repository:  *)
(* load validates the text and throws before it touches the game; loadPgn  *)
(* starts a new game and plays the moves of the text one after the other,  *)
(* and throws at the first that is not legal, the game standing where the  *)
(* replay stopped.                                                         *)
(***************************************************************************)
NewGame == [pos |-> "start", history |-> <<>>]

IsLegal(pos, san) == \E i \in DOMAIN LegalMoves(pos) : LegalMoves(pos)[i] = san

\* Chess.loadPgn from the game g on: thrown tells whether it threw
RECURSIVE Replay(_, _)
Replay(g, pgn) ==
  IF pgn = <<>> THEN [thrown |-> FALSE, game |-> g]
  ELSE IF IsLegal(g.pos, Head(pgn))
  THEN Replay([pos |-> CHOOSE p \in NextPosition(g.pos) : TRUE,
               history |-> Append(g.history, Head(pgn))], Tail(pgn))
  ELSE [thrown |-> TRUE, game |-> g]

\* ChessUtils.loadPgn: what it returns and the game it leaves
loadPgn(game, pgn) ==
  LET run == Replay(NewGame, pgn)
  IN  [returns |-> ~run.thrown, game |-> run.game]

\* ChessUtils.loadFen: what it returns and the game it leaves
loadFen(game, fen) ==
  IF fen \in Positions
  THEN [returns |-> TRUE, game |-> [pos |-> fen, history |-> <<>>]]
  ELSE [returns |-> FALSE, game |-> game]

(***************************************************************************)
(* The board of the caller's game and its drawing by the ChessBoard        *)
(* component (src/components/chess/ChessBoard.tsx).  Squares are texts     *)
(* "a1" .. "h8"; a piece is its type and colour, no piece is NoPiece.      *)
(* The element of the board is a grid of eight columns of cells 60 px      *)
(* wide inside a border of 2 px; pointer positions are in px from the left *)
(* and top of the element's bounding rectangle.                            *)
(***************************************************************************)
Letters == <<"a", "b", "c", "d", "e", "f", "g", "h">>
Digits == <<"1", "2", "3", "4", "5", "6", "7", "8">>

\* String.fromCharCode(97 + file) + (rank + 1)
coordsToSquare(file, rank) == Letters[file + 1] \o Digits[rank + 1]

\* square.charCodeAt(0) - 97 and parseInt(square[1]) - 1
squareToCoords(square) ==
  CHOOSE c \in [file : 0..7, rank : 0..7] : coordsToSquare(c.file, c.rank) = square

NoPiece == [type |-> "", color |-> ""]
White(t) == [type |-> t, color |-> "w"]
Black(t) == [type |-> t, color |-> "b"]

\* the rows of chess.board(), rank 8 first, file a first: the starting position,
\* and a position in which black, to move, is mated
BoardRows(pos) ==
  IF pos = "start"
  THEN << << Black("r"), Black("n"), Black("b"), Black("q"),
             Black("k"), Black("b"), Black("n"), Black("r") >>,
          [j \in 1..8 |-> Black("p")],
          [j \in 1..8 |-> NoPiece],
          [j \in 1..8 |-> NoPiece],
          [j \in 1..8 |-> NoPiece],
          [j \in 1..8 |-> NoPiece],
          [j \in 1..8 |-> White("p")],
          << White("r"), White("n"), White("b"), White("q"),
             White("k"), White("b"), White("n"), White("r") >> >>
  ELSE << << Black("r"), NoPiece, Black("b"), Black("q"),
             Black("k"), Black("b"), NoPiece, Black("r") >>,
          << Black("p"), Black("p"), Black("p"), Black("p"),
             NoPiece, White("q"), Black("p"), Black("p") >>,
          << NoPiece, NoPiece, Black("n"), NoPiece,
             NoPiece, Black("n"), NoPiece, NoPiece >>,
          << NoPiece, NoPiece, NoPiece, NoPiece,
             Black("p"), NoPiece, NoPiece, NoPiece >>,
          << NoPiece, NoPiece, White("b"), NoPiece,
             White("p"), NoPiece, NoPiece, NoPiece >>,
          [j \in 1..8 |-> NoPiece],
          << White("p"), White("p"), White("p"), White("p"),
             NoPiece, White("p"), White("p"), White("p") >>,
          << White("r"), White("n"), White("b"), NoPiece,
             White("k"), NoPiece, White("n"), White("r") >> >>

\* ChessUtils.getBoard: board[i][j], i and j counted from 0
getBoard(pos) == [i \in 0..7 |-> [j \in 0..7 |-> BoardRows(pos)[i + 1][j + 1]]]

\* ChessUtils.getPiece: chess.get(square)
getPiece(pos, square) ==
  LET c == squareToCoords(square)
  IN  BoardRows(pos)[8 - c.rank][c.file + 1]

\* getGameState().turn
Turn(pos) == IF pos = "start" THEN "w" ELSE "b"

\* chess.moves({ verbose: true }): the moves of LegalMoves with their squares
VerboseMoves(pos) ==
  IF pos = "start"
  THEN { [san |-> "e4", from |-> "e2", to |-> "e4"],
         [san |-> "d4", from |-> "d2", to |-> "d4"],
         [san |-> "Nf3", from |-> "g1", to |-> "f3"] }
  ELSE {}

\* ChessUtils.isLegalMove
isLegalMove(pos, from, to) == \E m \in VerboseMoves(pos) : m.from = from /\ m.to = to

SquareSize == 60
BorderWidth == 2
\* getBoundingClientRect().width of the board element
RectWidth == 8 * SquareSize + 2 * BorderWidth

NoSquare == ""

\* getSquareFromPosition, x and y counted from rect.left and rect.top:
\* Math.floor(x / (rect.width / 8))
getSquareFromPosition(flip, x, y) ==
  LET file == (8 * x) \div RectWidth
      rank == (8 * y) \div RectWidth
  IN  IF file < 0 \/ file > 7 \/ rank < 0 \/ rank > 7 THEN NoSquare
      ELSE coordsToSquare(IF flip THEN 7 - file ELSE file,
                          IF flip THEN rank ELSE 7 - rank)

\* renderSquare: the square the cell reports on mouse-down, and the piece drawn
renderSquare(piece, file, rank) ==
  [square |-> coordsToSquare(file, rank), piece |-> piece]

\* renderBoard: the cells in the order they are pushed, which the grid lays out
\* row after row from the top, each row from the left
renderBoard(flip, pos) ==
  [k \in 1..64 |->
     LET rank == (k - 1) \div 8
         file == (k - 1) % 8
         displayRank == IF flip THEN rank ELSE 7 - rank
         displayFile == IF flip THEN 7 - file ELSE file
     IN  renderSquare(getBoard(pos)[displayRank][displayFile], file, rank)]

\* the cell drawn in row and column (from 0, from the top left) of the grid
CellAt(flip, pos, row, col) == renderBoard(flip, pos)[8 * row + col + 1]

\* the row or column of the grid a pointer coordinate falls in, -1 outside
GridIndex(x) ==
  IF x < BorderWidth \/ x >= BorderWidth + 8 * SquareSize THEN -1
  ELSE (x - BorderWidth) \div SquareSize

\* the coordinates written beside the board: the rank beside the row and the
\* file under the column
RankLabel(flip, row) == IF flip THEN Digits[row + 1] ELSE Digits[8 - row]
FileLabel(flip, col) == IF flip THEN Letters[8 - col] ELSE Letters[col + 1]

\* useState<DragState>: the initial state, and the state set by handleMouseUp
NoDrag == [isDragging |-> FALSE, piece |-> NoPiece, from |-> NoSquare, startX |-> 0, startY |-> 0]

\* the component as mounted on the starting position
BoardMounted(f) ==
  /\ flipped = f
  /\ dragState = NoDrag
  /\ mousePosition = [x |-> 0, y |-> 0]
  /\ gameState = [turn |-> Turn("start")]
  /\ onMoveCalls = <<>>
  /\ drags = 0

(***************************************************************************)
(* The statistics of the TrainingLogs component                            *)
(* (src/components/chess/TrainingLogs.tsx): a log is the sequence of the   *)
(* types of its entries.                                                   *)
(***************************************************************************)
LogTypes == {"move", "blunder", "mistake", "inaccuracy", "good", "excellent", "brilliant"}

Count(logs, types) == Len(SelectSeq(logs, LAMBDA t : t \in types))

stats(logs) ==
  [totalMoves |-> Count(logs, {"move"}),
   blunders |-> Count(logs, {"blunder"}),
   mistakes |-> Count(logs, {"mistake"}),
   inaccuracies |-> Count(logs, {"inaccuracy"}),
   goodMoves |-> Count(logs, {"good", "excellent", "brilliant"})]

\* Math.round((goodMoves / totalMoves) * 100), 0 without moves
Accuracy(st) ==
  IF st.totalMoves > 0
  THEN (200 * st.goodMoves + st.totalMoves) \div (2 * st.totalMoves)
  ELSE 0

(***************************************************************************)
(* Commands and worker lines.                                              *)
(***************************************************************************)
Cmd(c, a, v) == [cmd |-> c, arg |-> a, val |-> v]

Line(t, d, k, s, pvIdx, m) ==
  [type |-> t, depth |-> d, kind |-> k, score |-> s, multipv |-> pvIdx, move |-> m]

\* a line of the worker that is none of uciok, readyok, info depth, bestmove:
\* "id name Stockfish", "option name ...", "info string ..."
OtherLine == Line("other", 0, "", 0, 0, "")
UciokLine == Line("uciok", 0, "", 0, 0, "")
ReadyokLine == Line("readyok", 0, "", 0, 0, "")
\* "bestmove e2e4", or "bestmove (none)" with move = ""
BestmoveLine(m) == Line("bestmove", 0, "", 0, 0, m)

\* the "info depth ..." lines the worker may stream during a search
InfoLines(pos) ==
  { Line("info", 5, "cp", -120, 1, "e2e4"),
    Line("info", 6, "mate", 2, 1, "e2e4") }

(***************************************************************************)
(* A request: one call of getBestMove or getMultipleMoves, with the        *)
(* variables its closure holds.                                            *)
(***************************************************************************)
NoResult == [isNull |-> TRUE, move |-> "", score |-> 0, depth |-> 0, isDeliberate |-> FALSE]

IdleRequest ==
  [pc |-> "idle",            \* idle, waitReady, searching, delay, done, failed
   kind |-> "",              \* "best" (getBestMove) or "multi" (getMultipleMoves)
   fen |-> "",               \* the fen argument
   moves |-> <<>>,           \* const moves = chessUtils.getLegalMoves()
   bestMove |-> "",          \* let bestMove
   evaluation |-> 0,         \* let evaluation
   depth |-> 0,              \* let depth
   result |-> NoResult,      \* the value the promise resolves with
   error |-> "",             \* the reason the promise rejects with
   count |-> 0,              \* the count argument of getMultipleMoves
   cands |-> {},             \* const moves: MoveEvaluation[], by array index
   list |-> <<>>,            \* the array getMultipleMoves resolves with
   waited |-> FALSE,         \* history: the call went through waitForReady
   scoreKind |-> "",         \* history: the score of the last info line handled, "cp" or "mate"
   cfgStart |-> DefaultConfig,  \* history: this.config when the search was started
   cfgUsed |-> DefaultConfig]   \* history: this.config read when the result was built

(***************************************************************************)
(* Pure functions of ChessEngine.                                          *)
(***************************************************************************)
\* calculateSkillLevel with the band below 1600 returning 19
calculateSkillLevelBump(elo) ==
  IF elo < 800 THEN 0
  ELSE IF elo < 1000 THEN 2
  ELSE IF elo < 1200 THEN 4
  ELSE IF elo < 1400 THEN 6
  ELSE IF elo < 1600 THEN 19
  ELSE IF elo < 1800 THEN 10
  ELSE IF elo < 2000 THEN 12
  ELSE IF elo < 2200 THEN 15
  ELSE IF elo < 2400 THEN 18
  ELSE 20

\* calculateSkillLevel with its last test written elo <= 2400
calculateSkillLevelLe(elo) ==
  IF elo < 800 THEN 0
  ELSE IF elo < 1000 THEN 2
  ELSE IF elo < 1200 THEN 4
  ELSE IF elo < 1400 THEN 6
  ELSE IF elo < 1600 THEN 8
  ELSE IF elo < 1800 THEN 10
  ELSE IF elo < 2000 THEN 12
  ELSE IF elo < 2200 THEN 15
  ELSE IF elo <= 2400 THEN 18
  ELSE 20

calculateSkillLevel(elo) ==
  IF elo < 800 THEN 0
  ELSE IF elo < 1000 THEN 2
  ELSE IF elo < 1200 THEN 4
  ELSE IF elo < 1400 THEN 6
  ELSE IF elo < 1600 THEN 8
  ELSE IF elo < 1800 THEN 10
  ELSE IF elo < 2000 THEN 12
  ELSE IF elo < 2200 THEN 15
  ELSE IF elo < 2400 THEN 18
  ELSE 20

\* the five commands of configureEngine, in the order it sends them
\* configureEngine sending the rating's skill level before the configured one
configureEngineSwapped(cfg) ==
  << Cmd("setoption", "Skill Level", calculateSkillLevel(cfg.eloRating)),
     Cmd("setoption", "Contempt", cfg.contempt),
     Cmd("setoption", "Move Overhead", cfg.moveOverhead),
     Cmd("setoption", "Skill Level", cfg.skillLevel),
     Cmd("isready", "", 0) >>

configureEngine(cfg) ==
  << Cmd("setoption", "Skill Level", cfg.skillLevel),
     Cmd("setoption", "Contempt", cfg.contempt),
     Cmd("setoption", "Move Overhead", cfg.moveOverhead),
     Cmd("setoption", "Skill Level", calculateSkillLevel(cfg.eloRating)),
     Cmd("isready", "", 0) >>

\* buildSearchCommand with its test written timePerMove >= 0
buildSearchCommandGe(cfg) ==
  IF cfg.timePerMove >= 0
  THEN Cmd("go", "movetime", cfg.timePerMove)
  ELSE Cmd("go", "nodes", cfg.nodesPerMove)

buildSearchCommand(cfg) ==
  IF cfg.timePerMove > 0
  THEN Cmd("go", "movetime", cfg.timePerMove)
  ELSE Cmd("go", "nodes", cfg.nodesPerMove)

Min(a, b) == IF a < b THEN a ELSE b

\* legalMoves.filter(move => move !== bestMove)
Alternatives(bestMove, legalMoves) ==
  SelectSeq(legalMoves, LAMBDA m : m # bestMove)

\* selectSuboptimalMove with the middle tier drawing from all the alternatives
selectSuboptimalMoveNoTier(cfg, bestMove, legalMoves, u) ==
  LET alternativeMoves == Alternatives(bestMove, legalMoves)
      n == Len(alternativeMoves)
      Pick(k) == alternativeMoves[((u * k) \div RandDen) + 1]
  IN  IF n = 0 THEN bestMove
      ELSE IF cfg.eloRating * 10 > 6 * 2500 THEN Pick(Min(3, n))
      ELSE Pick(n)

\* u is the Math.random() draw, as u / RandDen
selectSuboptimalMove(cfg, bestMove, legalMoves, u) ==
  LET alternativeMoves == Alternatives(bestMove, legalMoves)
      n == Len(alternativeMoves)
      \* Math.floor(Math.random() * k)
      Pick(k) == alternativeMoves[((u * k) \div RandDen) + 1]
  IN  IF n = 0 THEN bestMove
      \* eloRating / 2500 > 0.6
      ELSE IF cfg.eloRating * 10 > 6 * 2500 THEN Pick(Min(3, n))
      \* eloRating / 2500 > 0.3
      ELSE IF cfg.eloRating * 10 > 3 * 2500 THEN Pick(Min(5, n))
      ELSE Pick(n)

\* applyHumanLikeInaccuracy with its first test written accuracy > 100
applyHumanLikeInaccuracyGt(cfg, bestMove, legalMoves, u1, u2) ==
  IF cfg.accuracy > 100 THEN bestMove
  ELSE IF u1 * 100 * 2500 < cfg.accuracy * Min(cfg.eloRating, 2500) * RandDen
       THEN bestMove
       ELSE selectSuboptimalMove(cfg, bestMove, legalMoves, u2)

\* applyHumanLikeInaccuracy with its second test written randomFactor <= finalAccuracy
applyHumanLikeInaccuracyLe(cfg, bestMove, legalMoves, u1, u2) ==
  IF cfg.accuracy >= 100 THEN bestMove
  ELSE IF u1 * 100 * 2500 <= cfg.accuracy * Min(cfg.eloRating, 2500) * RandDen
       THEN bestMove
       ELSE selectSuboptimalMove(cfg, bestMove, legalMoves, u2)

\* u1 and u2 are the draws of applyHumanLikeInaccuracy and selectSuboptimalMove;
\* randomFactor < (accuracy / 100) * min(eloRating / 2500, 1), cross-multiplied
applyHumanLikeInaccuracy(cfg, bestMove, legalMoves, u1, u2) ==
  IF cfg.accuracy >= 100 THEN bestMove
  ELSE IF u1 * 100 * 2500 < cfg.accuracy * Min(cfg.eloRating, 2500) * RandDen
       THEN bestMove
       ELSE selectSuboptimalMove(cfg, bestMove, legalMoves, u2)

Abs(x) == IF x < 0 THEN -x ELSE x

evaluateConfidence(score, depth) ==
  IF Abs(score) > 500 THEN "best"
  ELSE IF Abs(score) > 200 THEN "good"
  ELSE IF Abs(score) > -100 THEN "questionable"
  ELSE "blunder"

\* delays are kept as multiples of 1 / DelayScale ms, so that the value is exact
DelayScale == 2 * RandDen

\* calculateMoveDelay with Math.random() = u / RandDen, times DelayScale:
\* 500 + (3000 - 500) * (1 - eloRating / 2500) * (0.5 + (u / RandDen) * 0.5)
calculateMoveDelay(cfg, u) ==
  500 * DelayScale + (2500 - cfg.eloRating) * (RandDen + u)

\* analyzeMoveQuality with its last test written evalChange >= -200
analyzeMoveQualityGe(prevEval, currentEval, isPlayerMove) ==
  LET evalChange == IF isPlayerMove THEN currentEval - prevEval
                                    ELSE prevEval - currentEval
  IN  IF evalChange > 200 THEN "brilliant"
      ELSE IF evalChange > 100 THEN "excellent"
      ELSE IF evalChange > 0 THEN "good"
      ELSE IF evalChange > -50 THEN "move"
      ELSE IF evalChange > -100 THEN "inaccuracy"
      ELSE IF evalChange >= -200 THEN "mistake"
      ELSE "blunder"

\* analyzeMoveQuality of TrainingLogs.tsx: the type of the log entry
analyzeMoveQuality(prevEval, currentEval, isPlayerMove) ==
  LET evalChange == IF isPlayerMove THEN currentEval - prevEval
                                    ELSE prevEval - currentEval
  IN  IF evalChange > 200 THEN "brilliant"
      ELSE IF evalChange > 100 THEN "excellent"
      ELSE IF evalChange > 0 THEN "good"
      ELSE IF evalChange > -50 THEN "move"
      ELSE IF evalChange > -100 THEN "inaccuracy"
      ELSE IF evalChange > -200 THEN "mistake"
      ELSE "blunder"

\* no pure function is being applied
NoCalc == [fn |-> "", args |-> <<>>, done |-> FALSE, out |-> <<>>]

(***************************************************************************)
(* Helpers on the state.                                                   *)
(***************************************************************************)
\* the worker's replies to the commands cmds: uciok to uci, readyok to isready
Replies(cmds) ==
  LET asked == SelectSeq(cmds, LAMBDA c : c.cmd \in {"uci", "isready"})
  IN  [i \in 1..Len(asked) |-> IF asked[i].cmd = "uci" THEN UciokLine ELSE ReadyokLine]

\* the indexes the go commands of cmds get in sent
GoIndexes(cmds) ==
  SelectSeq([i \in 1..Len(cmds) |-> Len(sent) + i],
            LAMBDA k : cmds[k - Len(sent)].cmd = "go")

\* postMessage of each command of cmds in turn; box and search are the replies
\* waiting and the searches unfinished before it
PostMessage(cmds, box, search) ==
  /\ sent' = sent \o cmds
  /\ outbox' = box \o Replies(cmds)
  /\ oracleSearch' = search \o GoIndexes(cmds)

\* sendCommand, for each command of cmds in turn: posted when this.stockfish is
\* set; a terminated worker takes no message
sendCommand(cmds, box, search) ==
  IF stockfish = "live"
  THEN PostMessage(cmds, box, search)
  ELSE /\ sent' = sent
       /\ outbox' = box
       /\ oracleSearch' = search

ClassHandler == [kind |-> "class", req |-> 0]
NullHandler == [kind |-> "null", req |-> 0]
BestHandler(r) == [kind |-> "best", req |-> r]
MultiHandler(r) == [kind |-> "multi", req |-> r]

\* the request the next call of getBestMove / getMultipleMoves is
NextRequest(r) ==
  /\ reqs[r].pc = "idle"
  /\ \A q \in Requests : q < r => reqs[q].pc # "idle"

\* the position set by the last position command among the first k of sent
RECURSIVE LastPosition(_)
LastPosition(k) ==
  IF k = 0 THEN ""
  ELSE IF sent[k].cmd = "position" THEN sent[k].arg
  ELSE LastPosition(k - 1)

(***************************************************************************)
(* Init: the state the constructor leaves: the configuration merged, the   *)
(* dynamic import of stockfish.js pending, nothing sent.                   *)
(***************************************************************************)
Init ==
  /\ stockfish = "loading"
  /\ onmessage = NullHandler
  /\ isReady = FALSE
  /\ config \in { Merge(DefaultConfig, p) : p \in InitPartials }
  /\ chess = "start"
  /\ reqs = [r \in Requests |-> IdleRequest]
  /\ sent = <<>>
  /\ oracleSearch = <<>>
  /\ oracleInfos = 0
  /\ outbox = <<>>
  /\ uciokObserved = FALSE
  /\ acksObserved = 0
  /\ terminals = 0
  /\ updates = 0
  /\ noise = 0
  /\ BoardMounted(FALSE)
  /\ calc = NoCalc

(***************************************************************************)
(* initializeEngine                                                        *)
(***************************************************************************)
\* the import resolves: the worker is created, the class handler installed,
\* uci and isready posted
initializeEngine ==
  /\ stockfish = "loading"
  /\ stockfish' = "live"
  /\ onmessage' = ClassHandler
  /\ PostMessage(<< Cmd("uci", "", 0), Cmd("isready", "", 0) >>, outbox, oracleSearch)
  /\ UNCHANGED <<isReady, config, chess, reqs, oracleInfos,
                 uciokObserved, acksObserved, terminals, updates>>
  /\ UNCHANGED <<calc, noise, boardVars>>

\* the import or the worker's construction throws: the catch logs and returns
initializeEngineFails ==
  /\ stockfish = "loading"
  /\ stockfish' = "failed"
  /\ UNCHANGED <<onmessage, isReady, config, chess, reqs, sent, oracleSearch,
                 oracleInfos, outbox, uciokObserved, acksObserved, terminals, updates>>
  /\ UNCHANGED <<calc, noise, boardVars>>

(***************************************************************************)
(* The handlers of the worker's lines.                                     *)
(***************************************************************************)
\* handleEngineMessage taking every line but uciok for readyok
handleEngineMessageLoose(message, box, search) ==
  IF message.type = "uciok"
  THEN /\ sendCommand(configureEngine(config), box, search)
       /\ uciokObserved' = TRUE
       /\ UNCHANGED <<isReady, acksObserved>>
  ELSE /\ isReady' = TRUE
       /\ acksObserved' = acksObserved + 1
       /\ sendCommand(<<>>, box, search)
       /\ UNCHANGED uciokObserved

\* the class handler, installed by initializeEngine
handleEngineMessage(message, box, search) ==
  IF message.type = "uciok"
  THEN /\ sendCommand(configureEngine(config), box, search)
       /\ uciokObserved' = TRUE
       /\ UNCHANGED <<isReady, acksObserved>>
  ELSE IF message.type = "readyok"
  THEN /\ isReady' = TRUE
       /\ acksObserved' = acksObserved + 1
       /\ sendCommand(<<>>, box, search)
       /\ UNCHANGED uciokObserved
  ELSE /\ sendCommand(<<>>, box, search)
       /\ UNCHANGED <<uciokObserved, isReady, acksObserved>>

\* the messageHandler of getBestMove without this.stockfish.onmessage = null
bestMessageHandlerKeep(r, message) ==
  LET q == reqs[r]
  IN  IF message.type = "info"
      THEN /\ reqs' = [reqs EXCEPT ![r] =
                [q EXCEPT !.depth = message.depth,
                          !.evaluation = IF message.kind = "cp" THEN message.score ELSE @,
                          !.scoreKind = message.kind]]
           /\ UNCHANGED onmessage
      ELSE IF message.type = "bestmove"
      THEN /\ UNCHANGED onmessage
           /\ IF message.move # ""
              THEN \E u1 \in Rand, u2 \in Rand :
                LET finalMove ==
                      applyHumanLikeInaccuracy(config, message.move, q.moves, u1, u2)
                IN  reqs' = [reqs EXCEPT ![r] =
                      [q EXCEPT !.pc = "delay",
                                !.bestMove = message.move,
                                !.cfgUsed = config,
                                !.result = [isNull |-> FALSE,
                                            move |-> finalMove,
                                            score |-> q.evaluation,
                                            depth |-> q.depth,
                                            isDeliberate |-> finalMove # message.move]]]
              ELSE reqs' = [reqs EXCEPT ![r] = [q EXCEPT !.pc = "done", !.result = NoResult]]
      ELSE UNCHANGED <<reqs, onmessage>>

\* the messageHandler of getBestMove's call r
bestMessageHandler(r, message) ==
  LET q == reqs[r]
  IN  IF message.type = "info"
      THEN /\ reqs' = [reqs EXCEPT ![r] =
                [q EXCEPT !.depth = message.depth,
                          !.evaluation = IF message.kind = "cp" THEN message.score ELSE @,
                          !.scoreKind = message.kind]]
           /\ UNCHANGED onmessage
      ELSE IF message.type = "bestmove"
      THEN /\ onmessage' = NullHandler
           /\ IF message.move # ""
              THEN \E u1 \in Rand, u2 \in Rand :
                LET finalMove ==
                      applyHumanLikeInaccuracy(config, message.move, q.moves, u1, u2)
                IN  reqs' = [reqs EXCEPT ![r] =
                      [q EXCEPT !.pc = "delay",
                                !.bestMove = message.move,
                                !.cfgUsed = config,
                                !.result = [isNull |-> FALSE,
                                            move |-> finalMove,
                                            score |-> q.evaluation,
                                            depth |-> q.depth,
                                            isDeliberate |-> finalMove # message.move]]]
              ELSE reqs' = [reqs EXCEPT ![r] = [q EXCEPT !.pc = "done", !.result = NoResult]]
      ELSE UNCHANGED <<reqs, onmessage>>

\* moves.filter(move => move !== undefined): the entries by ascending index
RECURSIVE Filtered(_)
Filtered(cands) ==
  IF cands = {} THEN <<>>
  ELSE LET c == CHOOSE x \in cands : \A y \in cands : x.index <= y.index
       IN  << [move |-> c.move, score |-> c.score, depth |-> c.depth] >>
             \o Filtered(cands \ {c})

\* the messageHandler of getMultipleMoves' call r
multiMessageHandler(r, message) ==
  LET q == reqs[r]
  IN  IF message.type = "info" /\ message.multipv > 0 /\ message.kind = "cp"
      THEN \* /pv (\w+)/ first matches inside "multipv <n>": move is the text of n
           /\ reqs' = [reqs EXCEPT ![r] =
                [q EXCEPT !.cands =
                   { c \in @ : c.index # message.multipv - 1 } \cup
                   { [index |-> message.multipv - 1,
                      move |-> ToString(message.multipv),
                      score |-> message.score,
                      depth |-> message.depth] }]]
           /\ UNCHANGED onmessage
      ELSE IF message.type = "bestmove"
      THEN /\ onmessage' = NullHandler
           /\ reqs' = [reqs EXCEPT ![r] =
                [q EXCEPT !.pc = "done", !.list = Filtered(q.cands)]]
      ELSE UNCHANGED <<reqs, onmessage>>

\* the worker's message event: the installed handler, if any, runs on the line;
\* box and search are the replies waiting and the searches unfinished after it
MessageEvent(message, box, search) ==
  /\ terminals' = IF message.type = "bestmove" THEN terminals + 1 ELSE terminals
  /\ IF onmessage.kind = "class"
     THEN /\ handleEngineMessage(message, box, search)
          /\ UNCHANGED <<reqs, onmessage>>
     ELSE /\ sendCommand(<<>>, box, search)
          /\ UNCHANGED <<isReady, uciokObserved, acksObserved>>
          /\ IF onmessage.kind = "best" THEN bestMessageHandler(onmessage.req, message)
             ELSE IF onmessage.kind = "multi" THEN multiMessageHandler(onmessage.req, message)
             ELSE UNCHANGED <<reqs, onmessage>>

\* the page is handed the oldest reply waiting
ReplyArrives ==
  /\ stockfish = "live"
  /\ outbox # <<>>
  /\ MessageEvent(Head(outbox), Tail(outbox), oracleSearch)
  /\ UNCHANGED <<stockfish, config, chess, oracleInfos, updates>>
  /\ UNCHANGED <<calc, noise, boardVars>>

\* the running search streams one progress line
InfoArrives ==
  /\ stockfish = "live"
  /\ oracleSearch # <<>>
  /\ oracleInfos < MaxInfo
  /\ \E l \in InfoLines(LastPosition(Head(oracleSearch))) :
       MessageEvent(l, outbox, oracleSearch)
  /\ oracleInfos' = oracleInfos + 1
  /\ UNCHANGED <<stockfish, config, chess, updates>>
  /\ UNCHANGED <<calc, noise, boardVars>>

\* the running search ends with its terminal line, and the next one starts
BestmoveArrives ==
  /\ stockfish = "live"
  /\ oracleSearch # <<>>
  /\ LET best == OracleBest(LastPosition(Head(oracleSearch)))
     IN  \E m \in (IF best = {} THEN {""} ELSE best) :
            MessageEvent(BestmoveLine(m), outbox, Tail(oracleSearch))
  /\ oracleInfos' = 0
  /\ UNCHANGED <<stockfish, config, chess, updates>>
  /\ UNCHANGED <<calc, noise, boardVars>>

\* the page is handed a line of the worker outside the protocol
NoiseArrives ==
  /\ stockfish = "live"
  /\ noise < MaxNoise
  /\ noise' = noise + 1
  /\ MessageEvent(OtherLine, outbox, oracleSearch)
  /\ UNCHANGED <<stockfish, config, chess, oracleInfos, updates, calc, boardVars>>

(***************************************************************************)
(* updateConfig, destroy, and the caller's game.                           *)
(***************************************************************************)
\* updateConfig replacing the configuration by the defaults and the new fields
updateConfigReplace(newConfig) ==
  /\ updates < MaxUpdates
  /\ updates' = updates + 1
  /\ config' = Merge(DefaultConfig, newConfig)
  /\ sendCommand(configureEngine(config'), outbox, oracleSearch)
  /\ UNCHANGED <<stockfish, onmessage, isReady, chess, reqs, oracleInfos,
                 uciokObserved, acksObserved, terminals>>
  /\ UNCHANGED <<calc, noise, boardVars>>

updateConfig(newConfig) ==
  /\ updates < MaxUpdates
  /\ updates' = updates + 1
  /\ config' = Merge(config, newConfig)
  /\ sendCommand(configureEngine(config'), outbox, oracleSearch)
  /\ UNCHANGED <<stockfish, onmessage, isReady, chess, reqs, oracleInfos,
                 uciokObserved, acksObserved, terminals>>
  /\ UNCHANGED <<calc, noise, boardVars>>

destroy ==
  /\ stockfish' = IF stockfish = "live" THEN "terminated" ELSE stockfish
  /\ UNCHANGED <<onmessage, isReady, config, chess, reqs, sent, oracleSearch,
                 oracleInfos, outbox, uciokObserved, acksObserved, terminals, updates>>
  /\ UNCHANGED <<calc, noise, boardVars>>

\* the caller plays a move on its ChessUtils object
makeMove ==
  /\ \E p \in NextPosition(chess) : chess' = p
  /\ UNCHANGED <<stockfish, onmessage, isReady, config, reqs, sent, oracleSearch,
                 oracleInfos, outbox, uciokObserved, acksObserved, terminals, updates>>
  /\ UNCHANGED <<calc, noise, boardVars>>

\* the caller takes its last move back on its ChessUtils object
undoMove ==
  /\ \E p \in PreviousPosition(chess) : chess' = p
  /\ UNCHANGED <<stockfish, onmessage, isReady, config, reqs, sent, oracleSearch,
                 oracleInfos, outbox, uciokObserved, acksObserved, terminals, updates>>
  /\ UNCHANGED <<calc, noise, boardVars>>

(***************************************************************************)
(* getBestMove and getMultipleMoves                                        *)
(***************************************************************************)
\* if (this.stockfish) in place of if (this.isReady)
checkReadyWorkerOnly == stockfish = "live"

\* the test of waitForReady's checkReady
checkReady == isReady

\* the promise executor of getBestMove without the test moves.length === 0
getBestMoveBodyNoCheck(r, q) ==
  LET moves == LegalMoves(chess)
  IN  IF stockfish \in {"loading", "failed"}
      THEN /\ reqs' = [reqs EXCEPT ![r] = [q EXCEPT !.pc = "failed", !.error = "TypeError"]]
           /\ UNCHANGED <<sent, outbox, oracleSearch, onmessage>>
      ELSE /\ sendCommand(<< Cmd("position", q.fen, 0), buildSearchCommand(config) >>,
                          outbox, oracleSearch)
           /\ onmessage' = BestHandler(r)
           /\ reqs' = [reqs EXCEPT ![r] =
                         [q EXCEPT !.pc = "searching", !.moves = moves, !.cfgStart = config]]

\* the promise executor of getBestMove, for the call q of request r
getBestMoveBody(r, q) ==
  LET moves == LegalMoves(chess)
  IN  IF Len(moves) = 0
      THEN \* resolve(null)
           /\ reqs' = [reqs EXCEPT ![r] = [q EXCEPT !.pc = "done", !.result = NoResult]]
           /\ UNCHANGED <<sent, outbox, oracleSearch, onmessage>>
      ELSE IF stockfish \in {"loading", "failed"}
      THEN \* this.stockfish is undefined: setting its onmessage throws
           /\ reqs' = [reqs EXCEPT ![r] = [q EXCEPT !.pc = "failed", !.error = "TypeError"]]
           /\ UNCHANGED <<sent, outbox, oracleSearch, onmessage>>
      ELSE /\ sendCommand(<< Cmd("position", q.fen, 0), buildSearchCommand(config) >>,
                          outbox, oracleSearch)
           /\ onmessage' = BestHandler(r)
           /\ reqs' = [reqs EXCEPT ![r] =
                         [q EXCEPT !.pc = "searching", !.moves = moves, !.cfgStart = config]]

\* the promise executor of getMultipleMoves
getMultipleMovesBody(r, q) ==
  IF stockfish \in {"loading", "failed"}
  THEN /\ reqs' = [reqs EXCEPT ![r] = [q EXCEPT !.pc = "failed", !.error = "TypeError"]]
       /\ UNCHANGED <<sent, outbox, oracleSearch, onmessage>>
  ELSE /\ sendCommand(<< Cmd("position", q.fen, 0),
                         Cmd("go", "depth 15 multipv", q.count) >>, outbox, oracleSearch)
       /\ onmessage' = MultiHandler(r)
       /\ reqs' = [reqs EXCEPT ![r] = [q EXCEPT !.pc = "searching", !.cfgStart = config]]

\* a call of getBestMove with the caller's current position
getBestMove(r) ==
  /\ NextRequest(r)
  /\ LET q == [IdleRequest EXCEPT !.kind = "best", !.fen = chess]
     IN  IF isReady
         THEN getBestMoveBody(r, q)
         ELSE /\ reqs' = [reqs EXCEPT ![r] = [q EXCEPT !.pc = "waitReady", !.waited = TRUE]]
              /\ UNCHANGED <<sent, outbox, oracleSearch, onmessage>>
  /\ UNCHANGED <<stockfish, isReady, config, chess, oracleInfos,
                 uciokObserved, acksObserved, terminals, updates>>
  /\ UNCHANGED <<calc, noise, boardVars>>

DefaultCount == 3

\* a call of getMultipleMoves with the caller's current position
getMultipleMoves(r) ==
  /\ NextRequest(r)
  /\ LET q == [IdleRequest EXCEPT !.kind = "multi", !.fen = chess, !.count = DefaultCount]
     IN  IF isReady
         THEN getMultipleMovesBody(r, q)
         ELSE /\ reqs' = [reqs EXCEPT ![r] = [q EXCEPT !.pc = "waitReady", !.waited = TRUE]]
              /\ UNCHANGED <<sent, outbox, oracleSearch, onmessage>>
  /\ UNCHANGED <<stockfish, isReady, config, chess, oracleInfos,
                 uciokObserved, acksObserved, terminals, updates>>
  /\ UNCHANGED <<calc, noise, boardVars>>

\* the 100 ms timer of waitForReady fires: checkReady resolves and the awaiting
\* call continues, or sets the timer again
waitForReady(r) ==
  /\ reqs[r].pc = "waitReady"
  /\ IF checkReady
     THEN IF reqs[r].kind = "best"
          THEN getBestMoveBody(r, reqs[r])
          ELSE getMultipleMovesBody(r, reqs[r])
     ELSE UNCHANGED <<reqs, sent, outbox, oracleSearch, onmessage>>
  /\ UNCHANGED <<stockfish, isReady, config, chess, oracleInfos,
                 uciokObserved, acksObserved, terminals, updates>>
  /\ UNCHANGED <<calc, noise, boardVars>>

\* the setTimeout of getBestMove's messageHandler fires: resolve(engineMove)
deliverResult(r) ==
  /\ reqs[r].pc = "delay"
  /\ reqs' = [reqs EXCEPT ![r].pc = "done"]
  /\ UNCHANGED <<stockfish, onmessage, isReady, config, chess, sent, oracleSearch,
                 oracleInfos, outbox, uciokObserved, acksObserved, terminals, updates>>
  /\ UNCHANGED <<calc, noise, boardVars>>

(***************************************************************************)
(* The specification.                                                      *)
(***************************************************************************)
Next ==
  \/ initializeEngine
  \/ initializeEngineFails
  \/ ReplyArrives
  \/ InfoArrives
  \/ BestmoveArrives
  \/ \E p \in UpdatePartials : updateConfig(p)
  \/ destroy
  \/ makeMove
  \/ \E r \in Requests : getBestMove(r)
  \/ \E r \in Requests : getMultipleMoves(r)
  \/ \E r \in Requests : waitForReady(r)
  \/ \E r \in Requests : deliverResult(r)

Spec == Init /\ [][Next]_vars

\* The event loop runs every due timer and hands the page every reply on the
\* channel, and the dynamic import settles.  The worker is outside the program:
\* nothing obliges it to stream a line of a search or to end it.
FairSpec ==
  /\ Spec
  /\ WF_vars(initializeEngine \/ initializeEngineFails)
  /\ WF_vars(ReplyArrives)
  /\ WF_vars(\E r \in Requests : waitForReady(r))
  /\ WF_vars(\E r \in Requests : deliverResult(r))

\* The caller may also take moves back, so that its game is at an earlier
\* position when a waiting call resumes.
GameNext == Next \/ undoMove

GameSpec == Init /\ [][GameNext]_vars

\* the engine with a worker that also emits lines outside the protocol
NoiseNext == Next \/ NoiseArrives

NoiseSpec == Init /\ [][NoiseNext]_vars

(***************************************************************************)
(* The pure functions on their own: one function is applied once to        *)
(* arguments drawn in the initial state.                                   *)
(***************************************************************************)
engineVars == <<stockfish, onmessage, isReady, config, chess, reqs, sent, oracleSearch,
                oracleInfos, outbox, uciokObserved, acksObserved, terminals, updates,
                noise, boardVars>>

MaxLegal == 7

\* ratings around every band of calculateSkillLevel and every tier of
\* selectSuboptimalMove, below zero and above the 2500 ceiling
PureRatings == {-100, 0, 750, 751, 799, 800, 999, 1000, 1199, 1200, 1399, 1400,
                1500, 1501, 1599, 1600, 1799, 1800, 1999, 2000, 2199, 2200,
                2399, 2400, 2500, 3000}

PureAccuracies == {0, 50, 85, 99, 100}

\* Math.random() draws, as numerators over RandDen
PureDraws == {0, RandDen \div 4, RandDen \div 2, RandDen - 1}

\* move texts of chess.js in the starting position
AllSan == <<"e4", "d4", "Nf3", "c4", "g3", "b3", "f4", "Nc3", "e3", "d3">>

PureLegal == { SubSeq(AllSan, 1, n) : n \in 0..Min(MaxLegal, Len(AllSan)) }

\* evaluations whose differences fall on and beside every threshold of
\* analyzeMoveQuality
PureEvals == {-230, -200, -199, -180, -100, -99, -50, -49, 0, 1, 50,
              100, 101, 200, 201, 250}

PureCall(f, a) == [fn |-> f, args |-> a, done |-> FALSE, out |-> <<>>]

\* evaluations on and beside every threshold of evaluateConfidence, of both signs
PureScores == {-900, -501, -500, -201, -200, -101, -100, -99, 0,
               99, 100, 101, 200, 201, 500, 501, 900}

PureDepths == {0, 15}

\* games a ChessUtils object may hold when a text is imported
PureGames == { NewGame, [pos |-> "mate", history |-> <<"d4">>] }

\* move texts: empty, one legal move, no legal move, a legal move then an
\* illegal one, and a move after the game has ended
PurePgns == { <<>>, <<"e4">>, <<"Zz9">>, <<"e4", "Zz9">>, <<"d4", "e4">> }

\* position texts: the two positions and one that does not parse
PureFens == Positions \cup {"bad"}

\* pointer coordinates: the first, the middle and the last px of every column
\* (or row) of the grid
PurePixels == { BorderWidth + SquareSize * c + o : c \in 0..7, o \in {0, 30, SquareSize - 1} }

MaxLogs == 3

\* the logs of at most MaxLogs entries
PureLogs == UNION { [1..n -> LogTypes] : n \in 0..MaxLogs }

SquareInputs ==
  { PureCall("getSquareFromPosition", <<f, x, y>>) :
      f \in BOOLEAN, x \in PurePixels, y \in PurePixels }

BoardInputs ==
  { PureCall("renderBoard", <<f, pos, row, col>>) :
      f \in BOOLEAN, pos \in Positions, row \in 0..7, col \in 0..7 }

StatsInputs == { PureCall("stats", <<logs>>) : logs \in PureLogs }

ConfidenceInputs ==
  { PureCall("evaluateConfidence", <<e, d>>) : e \in PureScores, d \in PureDepths }

PgnInputs ==
  { PureCall("loadPgn", <<g, pgn>>) : g \in PureGames, pgn \in PurePgns }

FenInputs ==
  { PureCall("loadFen", <<g, fen>>) : g \in PureGames, fen \in PureFens }

SkillInputs ==
  { PureCall("calculateSkillLevel", <<r1, r2>>) : r1 \in PureRatings, r2 \in PureRatings }

AccuracyInputs ==
  { PureCall("applyHumanLikeInaccuracy", <<elo, acc, u1, u2>>) :
      elo \in {0, 1250, 2500, 3000}, acc \in PureAccuracies,
      u1 \in PureDraws, u2 \in {0, RandDen - 1} }

SuboptimalInputs ==
  { PureCall("selectSuboptimalMove", <<elo, best, legal, u>>) :
      elo \in {0, 750, 751, 1500, 1501, 3000}, best \in {"e2e4", "d4"},
      legal \in PureLegal, u \in PureDraws }

DelayInputs ==
  { PureCall("calculateMoveDelay", <<elo, u>>) :
      elo \in { r \in PureRatings : r >= 0 }, u \in PureDraws }

QualityInputs ==
  { PureCall("analyzeMoveQuality", <<prev, cur, mover>>) :
      prev \in {0, 50}, cur \in PureEvals, mover \in BOOLEAN }

PureInit ==
  /\ stockfish = "loading"
  /\ onmessage = NullHandler
  /\ isReady = FALSE
  /\ config = DefaultConfig
  /\ chess = "start"
  /\ reqs = [r \in Requests |-> IdleRequest]
  /\ sent = <<>>
  /\ oracleSearch = <<>>
  /\ oracleInfos = 0
  /\ outbox = <<>>
  /\ uciokObserved = FALSE
  /\ acksObserved = 0
  /\ terminals = 0
  /\ updates = 0
  /\ noise = 0
  /\ BoardMounted(FALSE)
  /\ \/ calc \in SkillInputs
     \/ calc \in AccuracyInputs
     \/ calc \in SuboptimalInputs
     \/ calc \in DelayInputs
     \/ calc \in QualityInputs
     \/ calc \in ConfidenceInputs
     \/ calc \in PgnInputs
     \/ calc \in FenInputs
     \/ calc \in SquareInputs
     \/ calc \in BoardInputs
     \/ calc \in StatsInputs

\* the call has returned v
Returned(v) == [calc EXCEPT !.done = TRUE, !.out = v]

CallCalculateSkillLevel ==
  /\ calc.fn = "calculateSkillLevel"
  /\ ~calc.done
  /\ calc' = Returned(<< calculateSkillLevel(calc.args[1]), calculateSkillLevel(calc.args[2]) >>)
  /\ UNCHANGED engineVars

\* the engine's configuration with the rating and the accuracy of the call
CallConfig(elo, acc) == [DefaultConfig EXCEPT !.eloRating = elo, !.accuracy = acc]

CallApplyHumanLikeInaccuracy ==
  /\ calc.fn = "applyHumanLikeInaccuracy"
  /\ ~calc.done
  /\ calc' = Returned(<< applyHumanLikeInaccuracy(CallConfig(calc.args[1], calc.args[2]), "e2e4",
      LegalMoves("start"), calc.args[3], calc.args[4]) >>)
  /\ UNCHANGED engineVars

CallSelectSuboptimalMove ==
  /\ calc.fn = "selectSuboptimalMove"
  /\ ~calc.done
  /\ calc' = Returned(<< selectSuboptimalMove(CallConfig(calc.args[1], 85), calc.args[2],
      calc.args[3], calc.args[4]) >>)
  /\ UNCHANGED engineVars

CallCalculateMoveDelay ==
  /\ calc.fn = "calculateMoveDelay"
  /\ ~calc.done
  /\ calc' = Returned(<< calculateMoveDelay(CallConfig(calc.args[1], 85), calc.args[2]) >>)
  /\ UNCHANGED engineVars

CallAnalyzeMoveQuality ==
  /\ calc.fn = "analyzeMoveQuality"
  /\ ~calc.done
  /\ calc' = Returned(<< analyzeMoveQuality(calc.args[1], calc.args[2], calc.args[3]) >>)
  /\ UNCHANGED engineVars

CallEvaluateConfidence ==
  /\ calc.fn = "evaluateConfidence"
  /\ ~calc.done
  /\ calc' = Returned(<< evaluateConfidence(calc.args[1], calc.args[2]) >>)
  /\ UNCHANGED engineVars

CallLoadPgn ==
  /\ calc.fn = "loadPgn"
  /\ ~calc.done
  /\ calc' = Returned(<< loadPgn(calc.args[1], calc.args[2]) >>)
  /\ UNCHANGED engineVars

CallLoadFen ==
  /\ calc.fn = "loadFen"
  /\ ~calc.done
  /\ calc' = Returned(<< loadFen(calc.args[1], calc.args[2]) >>)
  /\ UNCHANGED engineVars

CallGetSquareFromPosition ==
  /\ calc.fn = "getSquareFromPosition"
  /\ ~calc.done
  /\ calc' = Returned(<< getSquareFromPosition(calc.args[1], calc.args[2], calc.args[3]) >>)
  /\ UNCHANGED engineVars

CallRenderBoard ==
  /\ calc.fn = "renderBoard"
  /\ ~calc.done
  /\ calc' = Returned(<< CellAt(calc.args[1], calc.args[2], calc.args[3], calc.args[4]) >>)
  /\ UNCHANGED engineVars

CallStats ==
  /\ calc.fn = "stats"
  /\ ~calc.done
  /\ calc' = Returned(<< stats(calc.args[1]), Accuracy(stats(calc.args[1])) >>)
  /\ UNCHANGED engineVars

PureNext ==
  \/ CallCalculateSkillLevel
  \/ CallApplyHumanLikeInaccuracy
  \/ CallSelectSuboptimalMove
  \/ CallCalculateMoveDelay
  \/ CallAnalyzeMoveQuality
  \/ CallEvaluateConfidence
  \/ CallLoadPgn
  \/ CallLoadFen
  \/ CallGetSquareFromPosition
  \/ CallRenderBoard
  \/ CallStats

PureSpec == PureInit /\ [][PureNext]_vars

(***************************************************************************)
(* The ChessBoard component on its own: the pointer presses, moves,        *)
(* releases and leaves; the caller's game moves on, and the parent renders *)
(* the component again.  A handler that sets state is followed by a render *)
(* before the next event.                                                  *)
(***************************************************************************)
MaxDrags == 2

\* the pointer coordinates of the events: outside the element, the last px of
\* the first column, and inside the second, fourth and fifth row or column
BoardPixels == {-1, 61, 92, 212, 272}

InsideRect(x, y) == 0 <= x /\ x < RectWidth /\ 0 <= y /\ y < RectWidth

\* a render of the component: const gameState = chessUtils.getGameState()
Rendered == [turn |-> Turn(chess)]

BoardInit ==
  /\ stockfish = "loading"
  /\ onmessage = NullHandler
  /\ isReady = FALSE
  /\ config = DefaultConfig
  /\ chess = "start"
  /\ reqs = [r \in Requests |-> IdleRequest]
  /\ sent = <<>>
  /\ oracleSearch = <<>>
  /\ oracleInfos = 0
  /\ outbox = <<>>
  /\ uciokObserved = FALSE
  /\ acksObserved = 0
  /\ terminals = 0
  /\ updates = 0
  /\ noise = 0
  /\ calc = NoCalc
  /\ \E f \in BOOLEAN : BoardMounted(f)

\* what the board leaves alone
outsideBoard == <<stockfish, onmessage, isReady, config, chess, reqs, sent, oracleSearch,
                  oracleInfos, outbox, uciokObserved, acksObserved, terminals, updates,
                  noise, calc, flipped>>

\* mouse-down on the cell under the pointer
handleMouseDown(x, y) ==
  /\ drags < MaxDrags
  /\ GridIndex(x) >= 0 /\ GridIndex(y) >= 0
  /\ LET square == CellAt(flipped, chess, GridIndex(y), GridIndex(x)).square
         piece == getPiece(chess, square)
     IN  IF piece # NoPiece /\ piece.color = gameState.turn
         THEN /\ dragState' = [isDragging |-> TRUE, piece |-> piece, from |-> square,
                               startX |-> x, startY |-> y]
              /\ mousePosition' = [x |-> x, y |-> y]
              /\ gameState' = Rendered
              /\ drags' = drags + 1
         ELSE UNCHANGED <<dragState, mousePosition, gameState, drags>>
  /\ UNCHANGED <<outsideBoard, onMoveCalls>>

handleMouseMove(x, y) ==
  /\ InsideRect(x, y)
  /\ IF dragState.isDragging
     THEN /\ mousePosition' = [x |-> x, y |-> y]
          /\ gameState' = Rendered
     ELSE UNCHANGED <<mousePosition, gameState>>
  /\ UNCHANGED <<outsideBoard, dragState, onMoveCalls, drags>>

\* handleMouseUp calling onMove without asking chessUtils.isLegalMove
MouseUpUnchecked(x, y) ==
  /\ IF dragState.isDragging /\ dragState.from # NoSquare
     THEN LET targetSquare == getSquareFromPosition(flipped, x, y)
          IN  IF targetSquare # NoSquare /\ targetSquare # dragState.from
              THEN onMoveCalls' = Append(onMoveCalls, [from |-> dragState.from, to |-> targetSquare])
              ELSE UNCHANGED onMoveCalls
     ELSE UNCHANGED onMoveCalls
  /\ dragState' = NoDrag
  /\ gameState' = Rendered
  /\ UNCHANGED <<outsideBoard, mousePosition, drags>>

\* the body of handleMouseUp, for an event at x, y
MouseUp(x, y) ==
  /\ IF dragState.isDragging /\ dragState.from # NoSquare
     THEN LET targetSquare == getSquareFromPosition(flipped, x, y)
          IN  IF /\ targetSquare # NoSquare /\ targetSquare # dragState.from
                 /\ isLegalMove(chess, dragState.from, targetSquare)
              THEN onMoveCalls' = Append(onMoveCalls, [from |-> dragState.from, to |-> targetSquare])
              ELSE UNCHANGED onMoveCalls
     ELSE UNCHANGED onMoveCalls
  /\ dragState' = NoDrag
  /\ gameState' = Rendered
  /\ UNCHANGED <<outsideBoard, mousePosition, drags>>

\* onMouseUp of the board element
handleMouseUp ==
  \E x \in BoardPixels, y \in BoardPixels : InsideRect(x, y) /\ MouseUp(x, y)

\* onMouseLeave of the board element: handleMouseUp with the pointer outside
handleMouseLeave ==
  \E x \in BoardPixels, y \in BoardPixels : ~InsideRect(x, y) /\ MouseUp(x, y)

\* the parent renders the component again
Render ==
  /\ gameState' = Rendered
  /\ UNCHANGED <<outsideBoard, dragState, mousePosition, onMoveCalls, drags>>

BoardNext ==
  \/ \E x \in BoardPixels, y \in BoardPixels : handleMouseDown(x, y)
  \/ \E x \in BoardPixels, y \in BoardPixels : handleMouseMove(x, y)
  \/ handleMouseUp
  \/ handleMouseLeave
  \/ makeMove
  \/ Render

BoardSpec == BoardInit /\ [][BoardNext]_vars

(***************************************************************************)
(* What the properties below read off the state.                           *)
(***************************************************************************)
\* the searches asked of the worker whose terminal line the page has not received
Outstanding ==
  Len(SelectSeq(sent, LAMBDA c : c.cmd = "go")) - terminals

\* the readiness probes posted so far, and the place of the last one in sent
ProbesSent == Len(SelectSeq(sent, LAMBDA c : c.cmd = "isready"))

LastProbe ==
  LET at == { i \in DOMAIN sent : sent[i].cmd = "isready" }
  IN  IF at = {} THEN 0 ELSE CHOOSE i \in at : \A j \in at : j <= i

\* request r is a getBestMove call that has been accepted and not resolved
InFlight(r) == reqs[r].kind = "best" /\ reqs[r].pc \in {"searching", "delay"}

\* request r is a getBestMove call whose EngineMove has been built
Built(r) ==
  /\ reqs[r].kind = "best"
  /\ reqs[r].pc \in {"delay", "done"}
  /\ ~reqs[r].result.isNull

Completed(r) == reqs[r].pc \in {"done", "failed"}

(***************************************************************************)
(* Properties.                                                             *)
(***************************************************************************)
\* C1: a getBestMove call made while an earlier getBestMove call is unresolved
\* (searching, or waiting out its delivery delay) fails at once with
\* RequestInFlight and changes nothing else: not the installed handler, not the
\* commands sent, not the earlier request.
C1_RequestInFlightRejected ==
  [][\A r \in Requests :
       ( /\ reqs[r].pc = "idle"
         /\ reqs'[r].pc # "idle"
         /\ reqs'[r].kind = "best"
         /\ \E q \in Requests \ {r} : InFlight(q) )
       => ( /\ reqs'[r].pc = "failed"
            /\ reqs'[r].error = "RequestInFlight"
            /\ \A q \in Requests \ {r} : reqs'[q] = reqs[q]
            /\ UNCHANGED <<onmessage, sent, outbox, oracleSearch, isReady, config>> )]_vars

\* C2: at most one search is outstanding: no second go is sent before the
\* bestmove line of the first has been received.
C2_AtMostOneOutstanding == Outstanding <= 1

\* C3: a search in flight can be cancelled: in every state where a getBestMove
\* call is searching, a step is possible that rejects it with Cancelled and
\* leaves no handler of it installed.
C3_CancelDuringSearch ==
  \A r \in Requests :
    (reqs[r].kind = "best" /\ reqs[r].pc = "searching")
    => ENABLED ( /\ Next
                 /\ reqs'[r].pc = "failed"
                 /\ reqs'[r].error = "Cancelled"
                 /\ onmessage' # BestHandler(r) )

\* C4: every accepted getBestMove call completes: while the worker lives and
\* the call's handler stays installed, a searching call is eventually resolved
\* or failed, also when the worker never sends the terminal line.
C4_SearchEventuallyCompletes ==
  \A r \in Requests :
    (reqs[r].kind = "best" /\ reqs[r].pc = "searching")
    ~> (Completed(r) \/ stockfish # "live" \/ onmessage # BestHandler(r))

\* C5: a configuration set by updateConfig during a search applies to the next
\* request only: the EngineMove of a request is built with the configuration in
\* force when the request's search was started.
C5_ConfigOfRequestStart ==
  \A r \in Requests : Built(r) => reqs[r].cfgUsed = reqs[r].cfgStart

\* C6: once configureEngine has posted its readiness probe, no search is
\* started before the readyok answering that probe has been observed.
C6_NoSearchBeforeProbeAck ==
  (ProbesSent >= 2 /\ acksObserved < ProbesSent)
  => \A i \in DOMAIN sent : i > LastProbe => sent[i].cmd # "go"

\* C7: before uciok has been observed no command other than uci is sent.
C7_HandshakeBeforeCommands ==
  ~uciokObserved => \A i \in DOMAIN sent : sent[i].cmd = "uci"

\* C8: when the worker could not be started, a call waiting for readiness
\* ends (with EngineUnavailable) instead of waiting forever.
C8_UnavailableEndsRequest ==
  \A r \in Requests :
    (stockfish = "failed" /\ reqs[r].pc = "waitReady") ~> Completed(r)

\* C9: no position or go command is sent while the readiness flag is false,
\* also for calls made before readyok was observed.
C9_SearchOnlyWhenReady ==
  (\E i \in DOMAIN sent : sent[i].cmd \in {"position", "go"}) => isReady

\* a call that had to wait for readiness has started its search
C9_Witness ==
  \E r \in Requests :
    /\ reqs[r].waited
    /\ reqs[r].pc = "searching"
    /\ \E i \in DOMAIN sent : sent[i].cmd = "go"

\* C10: an EngineMove built while accuracy is 100 carries the worker's best
\* move and isDeliberate = false, whatever the rating, the draws and the legal
\* moves.
C10_PerfectAccuracyPlaysBest ==
  \A r \in Requests :
    (Built(r) /\ reqs[r].cfgUsed.accuracy = 100)
    => /\ reqs[r].result.move = reqs[r].bestMove
       /\ reqs[r].result.isDeliberate = FALSE

\* an EngineMove was built and delivered with accuracy 100 from three legal moves
C10_Witness ==
  \E r \in Requests :
    /\ Built(r)
    /\ reqs[r].pc = "done"
    /\ reqs[r].cfgUsed.accuracy = 100
    /\ Len(reqs[r].moves) = 3
    /\ reqs[r].result.move = "e2e4"

\* the call of function f has returned
Called(f) == calc.fn = f /\ calc.done

\* the draw u / RandDen compared with p = (accuracy / 100) * min(rating / 2500, 1):
\* both sides multiplied by 100 * 2500 * RandDen
DrawTimes(u) == u * 100 * 2500

ProbabilityTimes(elo, acc) == acc * (IF elo > 2500 THEN 2500 ELSE elo) * RandDen

C12_SubstituteIsAnotherMove ==
  \A r \in Requests :
    (Built(r) /\ reqs[r].result.isDeliberate)
    => \E i \in DOMAIN reqs[r].moves :
         /\ reqs[r].moves[i] = reqs[r].result.move
         /\ SanToUci(reqs[r].moves[i]) # reqs[r].bestMove

\* the moves left of the call's legal moves once its best move is taken out
Remaining == SelectSeq(calc.args[3], LAMBDA m : m # calc.args[2])

\* how many of the remaining moves the rating tier of the call draws from
TierWidth ==
  LET n == Len(Remaining)
  IN  IF calc.args[1] > 1500 THEN Min(3, n)
      ELSE IF calc.args[1] > 750 THEN Min(5, n)
      ELSE n

\* C13: selectSuboptimalMove draws by rating tier: above 0.6 * 2500 one of the
\* first min(3, n) remaining moves, above 0.3 * 2500 one of the first
\* min(5, n), otherwise any of the n; for every draw the move returned is an
\* element of the remaining list.
C13_SubstituteWithinTier ==
  (Called("selectSuboptimalMove") /\ Len(Remaining) > 0)
  => \E i \in 1..TierWidth : calc.out[1] = Remaining[i]

\* a middle-tier rating with more than five remaining moves and the greatest
\* draw returned the fifth remaining move
C13_Witness ==
  /\ Called("selectSuboptimalMove")
  /\ calc.args[1] > 750 /\ calc.args[1] <= 1500
  /\ Len(Remaining) > 5
  /\ calc.args[4] = RandDen - 1
  /\ calc.out[1] = Remaining[5]

\* the change of evaluation of the call, from the mover's side
Delta ==
  IF calc.args[3] THEN calc.args[2] - calc.args[1] ELSE calc.args[1] - calc.args[2]

\* C14: analyzeMoveQuality gives every delta exactly one of seven tiers, the
\* boundaries going to the lower tier: brilliant above 200, excellent in
\* (100, 200], good in (0, 100], move in (-50, 0], inaccuracy in (-100, -50],
\* mistake in (-200, -100], blunder at -200 and below.
C14_SevenTiers ==
  Called("analyzeMoveQuality")
  => /\ calc.out[1] = "brilliant" <=> Delta > 200
     /\ calc.out[1] = "excellent" <=> (100 < Delta /\ Delta <= 200)
     /\ calc.out[1] = "good" <=> (0 < Delta /\ Delta <= 100)
     /\ calc.out[1] = "move" <=> (-50 < Delta /\ Delta <= 0)
     /\ calc.out[1] = "inaccuracy" <=> (-100 < Delta /\ Delta <= -50)
     /\ calc.out[1] = "mistake" <=> (-200 < Delta /\ Delta <= -100)
     /\ calc.out[1] = "blunder" <=> Delta <= -200

\* before = 50, after = -180, the mover's own move: delta -230, a blunder
C14_Witness ==
  /\ Called("analyzeMoveQuality")
  /\ calc.args = <<50, -180, TRUE>>
  /\ Delta = -230
  /\ calc.out[1] = "blunder"

C17_SkillLevelMonotonic ==
  (Called("calculateSkillLevel") /\ calc.args[1] < calc.args[2])
  => calc.out[1] <= calc.out[2]

\* two ratings of different bands were mapped, the lower to the lower level
C17_Witness ==
  /\ Called("calculateSkillLevel")
  /\ calc.args[1] < calc.args[2]
  /\ calc.out[1] < calc.out[2]

\* C18: for every integer rating calculateSkillLevel returns an integer of
\* 0..20: 0 below 800, negative ratings included, and 20 from 2400 up.
C18_SkillLevelBounded ==
  Called("calculateSkillLevel")
  => /\ calc.out[1] \in 0..20
     /\ calc.args[1] < 800 => calc.out[1] = 0
     /\ calc.args[1] >= 2400 => calc.out[1] = 20

\* a negative rating was mapped to 0 and a rating above 2500 to 20
C18_Witness ==
  /\ Called("calculateSkillLevel")
  /\ calc.args[1] < 0 /\ calc.out[1] = 0
  /\ calc.args[2] > 2500 /\ calc.out[2] = 20

\* request r is a getBestMove call that starts its search in this step
StartsSearch(r) ==
  /\ reqs[r].pc \in {"idle", "waitReady"}
  /\ reqs'[r].pc = "searching"
  /\ reqs'[r].kind = "best"

\* C19: a getBestMove call that starts a search on a live worker sends the
\* position command and then exactly one go command with exactly one budget:
\* movetime timePerMove when timePerMove > 0, otherwise nodes nodesPerMove.
C19_PositionThenOneBudget ==
  [][\A r \in Requests :
       (StartsSearch(r) /\ stockfish = "live")
       => sent' = sent \o
            << [cmd |-> "position", arg |-> reqs'[r].fen, val |-> 0],
               IF config.timePerMove > 0
               THEN [cmd |-> "go", arg |-> "movetime", val |-> config.timePerMove]
               ELSE [cmd |-> "go", arg |-> "nodes", val |-> config.nodesPerMove] >>]_vars

\* a search was started with timePerMove = 0: position, then go nodes
C19_Witness ==
  \E r \in Requests :
    /\ reqs[r].kind = "best"
    /\ reqs[r].pc = "searching"
    /\ reqs[r].cfgStart.timePerMove = 0
    /\ \E i \in DOMAIN sent :
         /\ i < Len(sent)
         /\ sent[i].cmd = "position"
         /\ sent[i + 1] = [cmd |-> "go", arg |-> "nodes",
                           val |-> reqs[r].cfgStart.nodesPerMove]

\* C20: getMultipleMoves resolves with at most count entries, each holding
\* the move, score and depth of a progress line the worker streamed; no entry
\* is made up.
C20_CandidatesAsStreamed ==
  \A r \in Requests :
    (reqs[r].kind = "multi" /\ reqs[r].pc = "done")
    => /\ Len(reqs[r].list) <= reqs[r].count
       /\ \A i \in DOMAIN reqs[r].list :
            \E l \in InfoLines(reqs[r].fen) :
              /\ reqs[r].list[i].move = l.move
              /\ reqs[r].list[i].score = l.score
              /\ reqs[r].list[i].depth = l.depth

\* C21: a request is resolved at most once, and by a bestmove line only: a
\* request leaves its search only in a step that hands over a bestmove line,
\* and once its result is built no later line changes the result or the list
\* or takes the request back.
C21_ResolvedOnceByTerminal ==
  [][\A r \in Requests :
       /\ (reqs[r].pc = "searching" /\ reqs'[r].pc # "searching")
          => terminals' = terminals + 1
       /\ reqs[r].pc \in {"delay", "done"}
          => /\ reqs'[r].result = reqs[r].result
             /\ reqs'[r].list = reqs[r].list
             /\ reqs'[r].pc \in {reqs[r].pc, "done"}]_vars

\* a request was resolved with a move and a further bestmove line has arrived
C21_Witness ==
  \E r \in Requests :
    /\ Built(r)
    /\ reqs[r].pc = "done"
    /\ terminals >= 2

\* request r is a getBestMove call whose promise executor runs in this step
RunsExecutor(r) ==
  /\ reqs[r].pc \in {"idle", "waitReady"}
  /\ reqs'[r].pc \notin {"idle", "waitReady"}
  /\ reqs'[r].kind = "best"

\* the bestmove line handed over in this step goes to the handler of request r
\* and names no move
NoMoveLineFor(r) ==
  /\ terminals' = terminals + 1
  /\ onmessage = BestHandler(r)
  /\ oracleSearch # <<>>
  /\ OracleBest(LastPosition(Head(oracleSearch))) = {}

\* C22: a getBestMove call ends with null when there is no legal move or when
\* the bestmove line names no move; with no legal move nothing is sent to the
\* worker and the readiness flag and the installed handler stay as they are.
C22_NoLegalMoveGivesNull ==
  [][\A r \in Requests :
       /\ (RunsExecutor(r) /\ LegalMoves(chess) = <<>>)
          => /\ reqs'[r].pc = "done"
             /\ reqs'[r].result.isNull
             /\ UNCHANGED <<sent, isReady, onmessage>>
       /\ NoMoveLineFor(r)
          => /\ reqs'[r].pc = "done"
             /\ reqs'[r].result.isNull]_vars

\* one call ended with null on a bestmove line without a move, after a search
\* with legal moves at hand, and another ended with null for want of a legal move
C22_Witness ==
  \E r, q \in Requests :
    /\ reqs[r].kind = "best" /\ reqs[r].pc = "done"
    /\ reqs[r].result.isNull /\ reqs[r].moves # <<>>
    /\ reqs[q].kind = "best" /\ reqs[q].pc = "done"
    /\ reqs[q].result.isNull /\ reqs[q].moves = <<>>

\* C23: a line that is none of uciok, readyok, info depth and bestmove changes
\* nothing, whatever handler is installed: the readiness flag, the installed
\* handler, every request with its depth, score and candidates, the commands
\* sent and the worker all stay as they are.
C23_OtherLineIgnored ==
  [][noise' = noise + 1
       => UNCHANGED <<stockfish, onmessage, isReady, config, chess, reqs, sent,
                      oracleSearch, oracleInfos, outbox, uciokObserved,
                      acksObserved, terminals, updates>>]_vars

\* a line outside the protocol was handed over while a search was running with
\* its depth recorded and the engine not yet ready for the other call
C23_Witness ==
  /\ noise > 0
  /\ \E r \in Requests : reqs[r].pc = "searching" /\ reqs[r].depth > 0
  /\ \E r \in Requests : reqs[r].pc = "searching" /\ reqs[r].kind = "multi"

\* C24 (as stated): destroy can be called in every state and leaves the engine
\* without a worker for good: terminated, or never to have one.
C24_DestroyReleasesWorker ==
  ENABLED (destroy /\ stockfish' \in {"terminated", "failed"})

\* C25: updateConfig gives every field named in the partial its new value and
\* leaves every other field as it was; the configurations already handed to
\* the requests (at their start and at their completion) stay as they are.
C25_UpdateConfigMerges ==
  [][updates' = updates + 1
       => /\ \E p \in UpdatePartials :
               \A f \in Fields :
                 config'[f] = IF f \in DOMAIN p THEN p[f] ELSE config[f]
          /\ reqs' = reqs]_vars

\* a configuration built from constructor arguments was updated after a request
\* had taken its copy, and the fields not named kept the constructor's values
C25_Witness ==
  /\ updates > 0
  /\ config.timePerMove = 0
  /\ config # DefaultConfig
  /\ \E r \in Requests : reqs[r].pc = "searching" /\ reqs[r].cfgStart # config

\* C26 (as stated): an import that fails, of a position text or of a move
\* text, returns false and leaves the game as it was before the call.
C26_FailedImportLeavesGame ==
  /\ (Called("loadFen") /\ calc.args[2] \notin Positions)
     => /\ ~calc.out[1].returns
        /\ calc.out[1].game = calc.args[1]
  /\ (Called("loadPgn") /\ Replay(NewGame, calc.args[2]).thrown)
     => /\ ~calc.out[1].returns
        /\ calc.out[1].game = calc.args[1]

\* C27 (as stated): evaluateConfidence reads the magnitude of the evaluation
\* only, neither its sign nor the depth; above 500 it answers best, above 200
\* and up to 500 good, below that questionable or blunder, and each of the
\* four answers is given for some evaluation.
C27_FourBuckets ==
  Called("evaluateConfidence")
  => LET e == calc.args[1]
         bucket == calc.out[1]
     IN  /\ \A d \in PureDepths : /\ evaluateConfidence(e, d) = bucket
                                  /\ evaluateConfidence(-e, d) = bucket
         /\ Abs(e) > 500 => bucket = "best"
         /\ (200 < Abs(e) /\ Abs(e) <= 500) => bucket = "good"
         /\ Abs(e) <= 200 => bucket \in {"questionable", "blunder"}
         /\ \A b \in {"best", "good", "questionable", "blunder"} :
              \E x \in PureScores, d \in PureDepths : evaluateConfidence(x, d) = b

\* C28 (as stated): the lines of a search reach the request that started it and
\* no other: as long as a request is searching, the handler installed on the
\* worker is that request's own.
C28_OwnEventsOnly ==
  \A r \in Requests :
    reqs[r].pc = "searching"
    => onmessage = (IF reqs[r].kind = "best" THEN BestHandler(r) ELSE MultiHandler(r))

\* C29 (as stated): the legal moves a getBestMove call holds for the
\* substitution are those of the position it names to the worker, even when the
\* caller's game has changed while the call waited for the engine.
C29_MovesOfThePositionSent ==
  \A r \in Requests :
    (reqs[r].kind = "best" /\ reqs[r].pc \in {"searching", "delay", "done"})
    => reqs[r].moves = LegalMoves(reqs[r].fen)

\* the Skill Level options sent so far
SkillOptions == SelectSeq(sent, LAMBDA c : c.cmd = "setoption" /\ c.arg = "Skill Level")

\* this step runs configureEngine on a live worker
Configures ==
  /\ stockfish = "live"
  /\ \/ updates' = updates + 1
     \/ ~uciokObserved /\ uciokObserved'

C31_FlagAndEvaluationOfBestLine ==
  \A r \in Requests :
    Built(r)
    => /\ reqs[r].result.isDeliberate
            <=> (SanToUci(reqs[r].result.move) # reqs[r].bestMove)
       /\ reqs[r].result.depth > 0
            => \E l \in InfoLines(reqs[r].fen) :
                 /\ l.depth = reqs[r].result.depth
                 /\ l.score = reqs[r].result.score

\* C32 (as stated): for a pointer inside a cell of the grid, in either
\* orientation, getSquareFromPosition gives the square renderSquare gave that
\* cell, the one a mouse-down on the cell reports.
C32_DropSquareIsCellSquare ==
  Called("getSquareFromPosition")
  => LET row == GridIndex(calc.args[3])
         col == GridIndex(calc.args[2])
     IN  calc.out[1] = CellAt(calc.args[1], "start", row, col).square

\* C33 (as stated): in either orientation the piece drawn in a cell is the
\* piece the game holds on the square the cell reports, and the rank and file
\* written beside the cell's row and column name that square.
C33_CellShowsItsSquare ==
  Called("renderBoard")
  => LET cell == calc.out[1]
     IN  /\ cell.piece = getPiece(calc.args[2], cell.square)
         /\ FileLabel(calc.args[1], calc.args[4]) \o RankLabel(calc.args[1], calc.args[3])
              = cell.square

\* C35 (as stated): Total Moves is the number of entries of the log, and
\* Accuracy is between 0 and 100, the rounded share of the entries that are
\* good, excellent or brilliant among all the entries.
C35_StatsOfAllEntries ==
  Called("stats")
  => LET logs == calc.args[1]
         good == Count(logs, {"good", "excellent", "brilliant"})
     IN  /\ calc.out[1].totalMoves = Len(logs)
         /\ 0 <= calc.out[2] /\ calc.out[2] <= 100
         /\ calc.out[2] = (IF Len(logs) > 0
                           THEN (200 * good + Len(logs)) \div (2 * Len(logs))
                           ELSE 0)

\* C34: onMove(from, to) is called only at the release of a drag that started
\* on from, a square holding a piece of the side to move, with to a square of
\* the board other than from and the move legal; a drag starts only on a piece
\* of the side to move as rendered; whenever dragging ends the whole drag state
\* is reset, and every call of onMove has used up a drag of its own.
C34_OnMoveOnlyForLegalDrag ==
  [][/\ onMoveCalls' # onMoveCalls
        => /\ dragState.isDragging
           /\ dragState.piece # NoPiece
           /\ dragState.piece = getPiece(chess, dragState.from)
           /\ dragState.piece.color = Turn(chess)
           /\ \E to \in { coordsToSquare(f, r) : f \in 0..7, r \in 0..7 } :
                /\ to # dragState.from
                /\ isLegalMove(chess, dragState.from, to)
                /\ onMoveCalls' = Append(onMoveCalls, [from |-> dragState.from, to |-> to])
           /\ dragState' = NoDrag
     /\ drags' # drags
        => /\ dragState'.isDragging
           /\ dragState'.piece # NoPiece
           /\ dragState'.piece = getPiece(chess, dragState'.from)
           /\ dragState'.piece.color = gameState.turn
     /\ (dragState.isDragging /\ ~dragState'.isDragging) => dragState' = NoDrag
     /\ Len(onMoveCalls') + (IF dragState'.isDragging THEN 1 ELSE 0) <= drags']_vars

\* of two drags one was released on a legal target and called onMove, the other
\* was released without a call, and nothing is being dragged
C34_Witness ==
  /\ drags = 2
  /\ Len(onMoveCalls) = 1
  /\ ~dragState.isDragging

====
